---- MODULE Spec2Model ----
(***************************************************************************)
(* A model of src/pinball_game.py: the flipper actuators, the ball, the    *)
(* bumpers and the game loop (Game.run / Game.update).                     *)
(*                                                                         *)
(* Numbers.  The program computes in floating point; the model computes in *)
(* fixed point, with every quantity an integer number of the units below,  *)
(* and every product rounded to the nearest unit (RDiv):                   *)
(*   time      1 ms           (Clock.tick returns whole milliseconds)      *)
(*   angle     1/1000 degree                                               *)
(*   position  1/100 pixel    (PS units per pixel)                         *)
(*   velocity  1/10 pixel/s   (VS units per pixel/s)                       *)
(*   unit vectors and cos/sin: 1/10000 (NS)                                *)
(* All intermediate values stay below 2^31.                                *)
(***************************************************************************)
EXTENDS Integers, Sequences, FiniteSets, TLC

VARIABLES
    left,     \* Game.left_flipper:  [angle, activated]
    right,    \* Game.right_flipper: [angle, activated]
    ball,     \* Game.ball: << >> for None, <<[x, y, vx, vy]>> for a live Ball
    score,    \* Game.score
    pc,       \* position of Game.run: "loop", "stopping" (running = False,
              \* iteration not finished), "done", "crashed" (ValueError raised)
    op,       \* the operation that produced this state
    ticks,    \* number of Game.update calls so far
    held,     \* the player: "free", or holding both flipper keys "released"
              \* or "pressed" from now on
    last      \* record of the last Game.update call (history, see Tick)

vars == <<left, right, ball, score, pc, op, ticks, held, last>>

----------------------------------------------------------------------------
(* Units *)

PS == 100
VS == 10
NS == 10000

(* Program constants, src/pinball_game.py lines 21-32, in model units *)
WIDTH == 800
HEIGHT == 1000
GRAVITY == 900
BALL_RADIUS == 12
FLIPPER_LENGTH == 110
FLIPPER_WIDTH == 18
FLIPPER_ANGLE == 25000
FLIPPER_REST_ANGLE == -22000
FLIPPER_SPEED == 400000
BUMPER_RADIUS == 28
BUMPER_FORCE == 650
LAUNCH_FORCE == 720
WALL == 20
DRAIN_MARGIN == 40
ABS_TOL == 57
FLIPPER_IMPULSE == 120
FLIPPER_PUSH == 4
LEFT_KICK == 60
BUMPER_CLEARANCE == 2

(* Bounds of the model *)
MaxTicks == 4                 \* Game.update calls in a run of Spec
SampleTicks == 2              \* Game.update calls in a run of SpecTick
DtSet == {17, 400}            \* Clock.tick results (ms) in Spec: a frame, a stall
SampleDt == {17, 50}          \* Clock.tick results (ms) in SpecTick
FlipDt == {10, 25, 400}       \* Clock.tick results (ms) in SpecFlip
LaunchVx == {-120, 120}       \* values of random.uniform(-120, 120)

----------------------------------------------------------------------------
(* Arithmetic *)

Abs(a) == IF a < 0 THEN -a ELSE a
Max(a, b) == IF a > b THEN a ELSE b
Min(a, b) == IF a < b THEN a ELSE b

\* a / b rounded to the nearest integer (b > 0)
RDiv(a, b) == (2 * a + b) \div (2 * b)

RECURSIVE SqrtSearch(_, _, _)
SqrtSearch(n, lo, hi) ==
    IF hi - lo <= 1 THEN lo
    ELSE LET mid == (lo + hi) \div 2
         IN  IF mid * mid <= n THEN SqrtSearch(n, mid, hi)
                               ELSE SqrtSearch(n, lo, mid)

\* floor of the square root of n, 0 <= n < 2^30
ISqrt(n) == SqrtSearch(n, 0, 32768)

Vec(x, y) == [x |-> x, y |-> y]

\* Vector2.length() <= r, for a vector in position units
WithinLength(d, r) ==
    /\ Abs(d.x) <= r
    /\ Abs(d.y) <= r
    /\ d.x * d.x + d.y * d.y <= r * r

Sub(p, q) == Vec(p.x - q.x, p.y - q.y)

\* Vector2.length() of a vector whose components are below 23000 in size
Length(s) == ISqrt(s.x * s.x + s.y * s.y)

\* Vector2.normalize(): the unit vector (scale NS) of a non-zero vector whose
\* components are at most 16000 in size.  The vector is first scaled up, so
\* that its length keeps four digits however short it is.
ScaleUp(d) == 16000 \div Max(Abs(d.x), Abs(d.y))
Scaled(d, f) == Vec(d.x * f, d.y * f)
UnitOf(s, len) == Vec(RDiv(s.x * NS, len), RDiv(s.y * NS, len))
NormalizeScaled(s) == UnitOf(s, Length(s))
Normalize(d) == NormalizeScaled(Scaled(d, ScaleUp(d)))

\* Vector2.dot of a vector and a unit vector (scale NS)
Dot(v, n) == RDiv(v.x * n.x + v.y * n.y, NS)

\* Vector2.reflect(normal) for a velocity v and a unit normal n (scale NS):
\* v - 2 (v . n) n
ReflectBy(v, n, d) == Vec(v.x - RDiv(2 * d * n.x, NS), v.y - RDiv(2 * d * n.y, NS))
Reflect(v, n) == ReflectBy(v, n, Dot(v, n))

\* math.cos and math.sin of an angle in 1/1000 degree, |angle| <= 25000,
\* scale NS, by their Taylor polynomials (error below 2/NS)
Radians(a) == RDiv(a * 17453, 100000)      \* in 1/10000 rad
SquareNS(t) == RDiv(t * t, NS)
CosPoly(t2) == NS - RDiv(t2, 2) + RDiv(RDiv(t2 * t2, NS), 24)
Cos(a) == CosPoly(SquareNS(Radians(a)))
SinTerms(t, t2, t3) == t - RDiv(t3, 6) + RDiv(RDiv(t3 * t2, NS), 120)
SinPoly(t, t2) == SinTerms(t, t2, RDiv(t2 * t, NS))
SinRad(t) == SinPoly(t, SquareNS(t))
Sin(a) == SinRad(Radians(a))

----------------------------------------------------------------------------
(* Flipper *)

LeftPivot == Vec(270 * PS, 820 * PS)
RightPivot == Vec(530 * PS, 820 * PS)

NewFlipper == [angle |-> FLIPPER_REST_ANGLE, activated |-> FALSE]

\* math.isclose(a, b, abs_tol=1e-3): 1e-3 rad is 57.3/1000 degree
IsClose(a, b) == Abs(a - b) <= ABS_TOL

\* (mutant) the clamp forgotten
ClampToTarget_Off(a, direction, target) == a

\* the clamp at the end of Flipper.update
ClampToTarget(a, direction, target) ==
    IF (direction > 0 /\ a > target) \/ (direction < 0 /\ a < target)
    THEN target ELSE a

\* (mutant) the two targets exchanged
TargetAngle_Swapped(f) == IF f.activated THEN FLIPPER_REST_ANGLE ELSE FLIPPER_ANGLE

\* Flipper.update(dt), dt in ms
TargetAngle(f) == IF f.activated THEN FLIPPER_ANGLE ELSE FLIPPER_REST_ANGLE
Direction(f, target_angle) == IF target_angle > f.angle THEN 1 ELSE -1
Rotate(f, dt, direction, target_angle) ==
    [f EXCEPT !.angle =
        ClampToTarget(f.angle + direction * ((FLIPPER_SPEED * dt) \div 1000),
                      direction, target_angle)]
MoveToward(f, dt, target_angle) ==
    IF IsClose(f.angle, target_angle)
    THEN [f EXCEPT !.angle = target_angle]
    ELSE Rotate(f, dt, Direction(f, target_angle), target_angle)
FlipperUpdate(f, dt) == MoveToward(f, dt, TargetAngle(f))

\* Flipper.toggle(active)
Toggle(f, active) == [f EXCEPT !.activated = active]

\* Flipper.get_tip()
TipDirection(is_left, angle) ==
    Vec(Cos(angle), IF is_left THEN Sin(angle) ELSE -Sin(angle))
TipAt(pivot, d) ==
    Vec(pivot.x + RDiv(d.x * FLIPPER_LENGTH * PS, NS),
        pivot.y + RDiv(d.y * FLIPPER_LENGTH * PS, NS))
GetTip(pivot, is_left, angle) == TipAt(pivot, TipDirection(is_left, angle))

\* the results of a collide(): [ball, hit, err], the ball afterwards, the
\* value returned, and whether normalize() of a zero vector raised ValueError
NoHit(b) == [ball |-> b, hit |-> FALSE, err |-> FALSE]
Raised(b) == [ball |-> b, hit |-> FALSE, err |-> TRUE]
Hit(b) == [ball |-> b, hit |-> TRUE, err |-> FALSE]

\* Flipper.collide(ball), in the order of its statements
ProjectionLength(pivot, direction, b) ==
    Max(0, Min(FLIPPER_LENGTH * PS, Dot(Sub(b, pivot), direction)))
PointAt(pivot, direction, projection_length) ==
    Vec(pivot.x + RDiv(direction.x * projection_length, NS),
        pivot.y + RDiv(direction.y * projection_length, NS))
ClosestPoint(pivot, direction, b) ==
    PointAt(pivot, direction, ProjectionLength(pivot, direction, b))
FlipperContact(diff) ==
    WithinLength(diff, BALL_RADIUS * PS + (FLIPPER_WIDTH * PS) \div 2)
FlipperBounceBy(is_left, b, normal, refl) ==
    [x  |-> b.x + RDiv(normal.x * FLIPPER_PUSH * PS, NS),
     y  |-> b.y + RDiv(normal.y * FLIPPER_PUSH * PS, NS),
     vx |-> refl.x + RDiv(normal.x * FLIPPER_IMPULSE * VS, NS),
     vy |-> refl.y + RDiv(normal.y * FLIPPER_IMPULSE * VS, NS)
            - (IF is_left THEN LEFT_KICK * VS ELSE 0)]
FlipperBounce(is_left, b, normal) ==
    FlipperBounceBy(is_left, b, normal, Reflect(Vec(b.vx, b.vy), normal))
FlipperResponse(is_left, b, diff) ==
    IF FlipperContact(diff)
    THEN IF diff = Vec(0, 0) THEN Raised(b)
         ELSE Hit(FlipperBounce(is_left, b, Normalize(diff)))
    ELSE NoHit(b)
CollideSegment(pivot, is_left, direction, b) ==
    FlipperResponse(is_left, b, Sub(b, ClosestPoint(pivot, direction, b)))
CollideTip(pivot, is_left, tv, b) ==
    IF tv = Vec(0, 0) THEN Raised(b)
    ELSE CollideSegment(pivot, is_left, Normalize(tv), b)
FlipperCollide(pivot, is_left, angle, b) ==
    CollideTip(pivot, is_left, Sub(GetTip(pivot, is_left, angle), pivot), b)

----------------------------------------------------------------------------
(* Bumper *)

\* Game._create_bumpers(): position (pixels) and value, in list order
Bumpers ==
    << [x |-> 220, y |-> 260, value |-> 150], [x |-> 320, y |-> 260, value |-> 150],
       [x |-> 480, y |-> 260, value |-> 150], [x |-> 580, y |-> 260, value |-> 150],
       [x |-> 220, y |-> 360, value |-> 150], [x |-> 320, y |-> 360, value |-> 150],
       [x |-> 480, y |-> 360, value |-> 150], [x |-> 580, y |-> 360, value |-> 150],
       [x |-> 220, y |-> 460, value |-> 150], [x |-> 320, y |-> 460, value |-> 150],
       [x |-> 480, y |-> 460, value |-> 150], [x |-> 580, y |-> 460, value |-> 150],
       [x |-> WIDTH \div 2, y |-> 560, value |-> 250] >>

Centre(bp) == Vec(bp.x * PS, bp.y * PS)

\* the contact test of Bumper.collide
BumperContact(bp, b) ==
    WithinLength(Sub(b, Centre(bp)), (BUMPER_RADIUS + BALL_RADIUS) * PS)

\* (mutant) the ball put at the bumper's radius plus the clearance, the
\* ball's own radius forgotten
Relocate_NoBallRadius(bp, normal) ==
    Vec(bp.x * PS + RDiv(normal.x * (BUMPER_RADIUS + BUMPER_CLEARANCE) * PS, NS),
        bp.y * PS + RDiv(normal.y * (BUMPER_RADIUS + BUMPER_CLEARANCE) * PS, NS))

\* where Bumper.collide puts the ball: on the normal, at the radius sum
\* plus the clearance
Relocate(bp, normal) ==
    Vec(bp.x * PS + RDiv(normal.x * (BUMPER_RADIUS + BALL_RADIUS + BUMPER_CLEARANCE) * PS, NS),
        bp.y * PS + RDiv(normal.y * (BUMPER_RADIUS + BALL_RADIUS + BUMPER_CLEARANCE) * PS, NS))

\* the velocity Bumper.collide gives the ball: reflected, plus 0.4 of the
\* impulse normal * BUMPER_FORCE
BumperVelocity(normal, refl) ==
    Vec(refl.x + RDiv(normal.x * BUMPER_FORCE * VS * 4, NS * 10),
        refl.y + RDiv(normal.y * BUMPER_FORCE * VS * 4, NS * 10))

BallAt(p, v) == [x |-> p.x, y |-> p.y, vx |-> v.x, vy |-> v.y]

BumperBounce(bp, b, normal) ==
    BallAt(Relocate(bp, normal),
           BumperVelocity(normal, Reflect(Vec(b.vx, b.vy), normal)))

\* Bumper.collide(ball)
BumperCollide(bp, b) ==
    IF BumperContact(bp, b)
    THEN IF Sub(b, Centre(bp)) = Vec(0, 0) THEN Raised(b)
         ELSE Hit(BumperBounce(bp, b, Normalize(Sub(b, Centre(bp)))))
    ELSE NoHit(b)

----------------------------------------------------------------------------
(* Ball *)

\* Ball._handle_walls(): three tests in sequence
WallLeft(b) ==
    IF b.x - BALL_RADIUS * PS < WALL * PS
    THEN [b EXCEPT !.x = (WALL + BALL_RADIUS) * PS, !.vx = RDiv(Abs(b.vx) * 92, 100)]
    ELSE b
\* (mutant) the right wall sends the ball on to the right, as the left
\* wall's line does
WallRight_KeepsSign(b) ==
    IF b.x + BALL_RADIUS * PS > (WIDTH - WALL) * PS
    THEN [b EXCEPT !.x = (WIDTH - WALL - BALL_RADIUS) * PS, !.vx = RDiv(Abs(b.vx) * 92, 100)]
    ELSE b
WallRight(b) ==
    IF b.x + BALL_RADIUS * PS > (WIDTH - WALL) * PS
    THEN [b EXCEPT !.x = (WIDTH - WALL - BALL_RADIUS) * PS, !.vx = -RDiv(Abs(b.vx) * 92, 100)]
    ELSE b
WallTop(b) ==
    IF b.y - BALL_RADIUS * PS < WALL * PS
    THEN [b EXCEPT !.y = (WALL + BALL_RADIUS) * PS, !.vy = RDiv(Abs(b.vy) * 92, 100)]
    ELSE b
HandleWalls(b) == WallTop(WallRight(WallLeft(b)))

\* the integration step of Ball.update(dt): velocity first, then position
\* with the new velocity
\* (mutant) explicit Euler: the position moved with the old velocity
Move_OldVelocity(b, dt, vy1) ==
    [x  |-> b.x + RDiv(b.vx * dt, (1000 * VS) \div PS),
     y  |-> b.y + RDiv(b.vy * dt, (1000 * VS) \div PS),
     vx |-> b.vx,
     vy |-> vy1]
Move(b, dt, vy1) ==
    [x  |-> b.x + RDiv(b.vx * dt, (1000 * VS) \div PS),
     y  |-> b.y + RDiv(vy1 * dt, (1000 * VS) \div PS),
     vx |-> b.vx,
     vy |-> vy1]
Integrate(b, dt) == Move(b, dt, b.vy + RDiv(GRAVITY * VS * dt, 1000))

\* Ball.update(dt)
BallUpdate(b, dt) == HandleWalls(Integrate(b, dt))

----------------------------------------------------------------------------
(* Game *)

\* One obstacle test of Game._handle_collisions applied to the running
\* state s = [ball, score, fhits, hits, seen, err]: fhits and hits are the
\* flippers and the bumper indices whose collide() returned True, seen the
\* ball as each bumper tested it.  Nothing more runs once ValueError is raised.

\* (mutant) a flipper hit scores too
AfterFlipper_Scores(s, name, r) ==
    [s EXCEPT !.ball = r.ball, !.err = r.err,
              !.fhits = IF r.hit THEN s.fhits \cup {name} ELSE s.fhits,
              !.score = IF r.hit THEN s.score + 50 ELSE s.score]
\* the running state after a flipper's collide() gave r
AfterFlipper(s, name, r) ==
    [s EXCEPT !.ball = r.ball, !.err = r.err,
              !.fhits = IF r.hit THEN s.fhits \cup {name} ELSE s.fhits]
FlipperStep(s, name, pivot, is_left, angle) ==
    IF s.err THEN s
    ELSE AfterFlipper(s, name, FlipperCollide(pivot, is_left, angle, s.ball))

\* (mutant) the Bumper dataclass's default value instead of the bumper's own
ScoreGain_Default(bp) == 100

\* what Game._handle_collisions adds to the score for a bumper that reported
\* contact
ScoreGain(bp) == bp.value

\* the running state after bumper i's collide() gave r
AfterBumper(s, i, r) ==
    [s EXCEPT !.ball = r.ball, !.err = r.err,
              !.seen = Append(s.seen, s.ball),
              !.hits = IF r.hit THEN s.hits \cup {i} ELSE s.hits,
              !.score = IF r.hit THEN s.score + ScoreGain(Bumpers[i]) ELSE s.score]
BumperStep(s, i) ==
    IF s.err THEN s
    ELSE AfterBumper(s, i, BumperCollide(Bumpers[i], s.ball))

RECURSIVE BumperLoop(_, _)
BumperLoop(s, i) ==
    IF i > Len(Bumpers) THEN s ELSE BumperLoop(BumperStep(s, i), i + 1)

\* Game._handle_collisions() with a ball b
NoHits(b, sc) ==
    [ball |-> b, score |-> sc, fhits |-> {}, hits |-> {}, seen |-> << >>,
     err |-> FALSE]
HandleCollisions(l, r, b, sc) ==
    BumperLoop(FlipperStep(FlipperStep(NoHits(b, sc),
                                       "left", LeftPivot, TRUE, l.angle),
                           "right", RightPivot, FALSE, r.angle),
               1)

\* (mutant) the ball removed as soon as its centre passes the bottom edge
Drained_NoMargin(b) == b.y > HEIGHT * PS

\* the drain test of Game.update
Drained(b) == b.y - BALL_RADIUS * PS > (HEIGHT + DRAIN_MARGIN) * PS

Spawn == Vec((WIDTH - 70) * PS, (HEIGHT - 80) * PS)

\* Game.launch_ball(): u is the value drawn by random.uniform(-120, 120)
LaunchBall(u) ==
    << [x |-> Spawn.x, y |-> Spawn.y, vx |-> u * VS, vy |-> -LAUNCH_FORCE * VS] >>

\* (mutant) the K_SPACE branch without its `not self.ball`
SpaceLaunches_Always(b) == TRUE

\* the K_SPACE branch of Game.run: launch only when there is no ball
SpaceLaunches(b) == b = << >>

NoTick == [dt |-> 0, l0 |-> FLIPPER_REST_ANGLE, r0 |-> FLIPPER_REST_ANGLE,
           pre |-> << >>, mid |-> << >>, post |-> << >>,
           fhits |-> {}, hits |-> {}, seen |-> << >>, score0 |-> 0]

\* Game.update(dt) with the keys read by pygame.key.get_pressed():
\* kl = K_LEFT or K_a, kr = K_RIGHT or K_d.  `last` records the call: the
\* flipper angles and the ball before it, the ball after Ball.update and
\* after _handle_collisions, what was hit, and the score before.
Tick(dt, kl, kr) ==
    \E l1 \in {FlipperUpdate(Toggle(left, kl), dt)},
       r1 \in {FlipperUpdate(Toggle(right, kr), dt)} :
        /\ left' = l1
        /\ right' = r1
        /\ op' = "update"
        /\ IF ball = << >>
           THEN /\ ball' = << >>
                /\ score' = score
                /\ pc' = IF pc = "stopping" THEN "done" ELSE pc
                /\ last' = [NoTick EXCEPT !.dt = dt, !.score0 = score,
                                          !.l0 = left.angle, !.r0 = right.angle]
           ELSE \E b1 \in {BallUpdate(ball[1], dt)} :
                \E c \in {HandleCollisions(l1, r1, b1, score)} :
                    /\ score' = c.score
                    /\ ball' = IF ~c.err /\ Drained(c.ball) THEN << >> ELSE <<c.ball>>
                    /\ pc' = IF c.err THEN "crashed"
                             ELSE IF pc = "stopping" THEN "done" ELSE pc
                    /\ last' = [dt |-> dt, l0 |-> left.angle, r0 |-> right.angle,
                                pre |-> ball, mid |-> <<b1>>,
                                post |-> <<c.ball>>, fhits |-> c.fhits,
                                hits |-> c.hits, seen |-> c.seen, score0 |-> score]

\* one iteration's Game.update call in Game.run
Update ==
    /\ pc \in {"loop", "stopping"}
    /\ ticks < MaxTicks
    /\ \E dt \in DtSet, kl \in BOOLEAN, kr \in BOOLEAN : Tick(dt, kl, kr)
    /\ ticks' = ticks + 1
    /\ UNCHANGED held

\* a KEYDOWN event with key K_SPACE handled by Game.run
KeyDownSpace ==
    /\ pc \in {"loop", "stopping"}
    /\ op' = "space"
    /\ \E u \in LaunchVx :
          ball' = IF SpaceLaunches(ball) THEN LaunchBall(u) ELSE ball
    /\ UNCHANGED <<left, right, score, pc, ticks, held, last>>

\* a QUIT event, or KEYDOWN with K_ESCAPE or K_q: running = False
Quit ==
    /\ pc = "loop"
    /\ pc' = "stopping"
    /\ op' = "quit"
    /\ UNCHANGED <<left, right, ball, score, ticks, held, last>>

\* Game.__init__
Init ==
    /\ left = NewFlipper
    /\ right = NewFlipper
    /\ ball = << >>
    /\ score = 0
    /\ pc = "loop"
    /\ op = "init"
    /\ ticks = 0
    /\ held = "free"
    /\ last = NoTick

Next == Update \/ KeyDownSpace \/ Quit

Spec == Init /\ [][Next]_vars

----------------------------------------------------------------------------
(* SpecTick: Game.update and the launch event applied for SampleTicks        *)
(* ticks to a table whose ball is drawn from a sample of positions           *)
(* (pixels) and velocities (pixels/s) inside the playfield: beside bumpers   *)
(* (out of their contact range, where a tick never leaves the ball), walls,  *)
(* flippers, the drain and the chute.                                        *)

SamplePos ==
    { <<400, 515>>, <<400, 605>>, <<355, 560>>, <<435, 530>>, <<385, 515>>,
      <<220, 215>>, <<190, 295>>, <<615, 490>>,
      <<40, 500>>, <<760, 500>>, <<400, 40>>, <<40, 40>>, <<760, 40>>,
      <<270, 800>>, <<320, 790>>, <<370, 770>>,
      <<530, 800>>, <<580, 850>>, <<630, 870>>,
      <<400, 1040>>, <<100, 1000>>, <<730, 920>>, <<400, 700>> }

SampleVel ==
    { <<0, 0>>, <<0, 600>>, <<0, -600>>, <<600, 0>>, <<-600, 0>>,
      <<450, 450>>, <<-450, -450>>, <<-450, 450>>, <<450, -450>>, <<0, 1500>> }

SampleBalls ==
    { << >> } \cup
    { << [x |-> p[1] * PS, y |-> p[2] * PS, vx |-> v[1] * VS, vy |-> v[2] * VS] >> :
        p \in SamplePos, v \in SampleVel }

InitTick ==
    /\ left = NewFlipper
    /\ right = NewFlipper
    /\ ball \in SampleBalls
    /\ score = 0
    /\ pc = "loop"
    /\ op = "init"
    /\ ticks = 0
    /\ held = "free"
    /\ last = NoTick

UpdateTick ==
    /\ pc \in {"loop", "stopping"}
    /\ ticks < SampleTicks
    /\ \E dt \in SampleDt, kl \in BOOLEAN, kr \in BOOLEAN : Tick(dt, kl, kr)
    /\ ticks' = ticks + 1
    /\ UNCHANGED held

NextTick == UpdateTick \/ KeyDownSpace

SpecTick == InitTick /\ [][NextTick]_vars

----------------------------------------------------------------------------
(* SpecFlip: the game loop with no ball, for any number of ticks.  The      *)
(* player may at some point settle on holding both flipper keys released   *)
(* or pressed; Game.run calls Game.update in every iteration.              *)

KeysAllowed(kl, kr) ==
    \/ held = "free"
    \/ held = "released" /\ ~kl /\ ~kr
    \/ held = "pressed" /\ kl /\ kr

FlipTick ==
    /\ pc = "loop"
    /\ \E dt \in FlipDt, kl \in BOOLEAN, kr \in BOOLEAN :
          KeysAllowed(kl, kr) /\ Tick(dt, kl, kr)
    /\ UNCHANGED <<ticks, held>>

Hold ==
    /\ held = "free"
    /\ held' \in {"released", "pressed"}
    /\ UNCHANGED <<left, right, ball, score, pc, op, ticks, last>>

NextFlip == FlipTick \/ Hold

SpecFlip == Init /\ [][NextFlip]_vars /\ WF_vars(FlipTick)

----------------------------------------------------------------------------
(* SpecAimed: one Game.update of 50 ms on a ball that falls at 855 px/s      *)
(* (900 px/s after gravity: 45 pixels in the frame) from 45 pixels above a   *)
(* row of points through the centre of the 250-point bumper, or through the  *)
(* left flipper's pivot, with a sideways velocity that carries it 20 pixels  *)
(* left or right, or none.                                                   *)

AimedDt == {50}
AimedOffsets == {-40, -20, 0, 20, 40}
AimedAt == { <<WIDTH \div 2, 560>>, <<270, 820>> }
AimedVx == {-400, 0, 400}

AimedBalls ==
    { << [x |-> (c[1] + dx) * PS, y |-> (c[2] - 45) * PS,
          vx |-> vx * VS, vy |-> 855 * VS] >> :
        c \in AimedAt, dx \in AimedOffsets, vx \in AimedVx }

InitAimed ==
    /\ left = NewFlipper
    /\ right = NewFlipper
    /\ ball \in AimedBalls
    /\ score = 0
    /\ pc = "loop"
    /\ op = "init"
    /\ ticks = 0
    /\ held = "free"
    /\ last = NoTick

UpdateAimed ==
    /\ pc = "loop"
    /\ ticks = 0
    /\ \E dt \in AimedDt, kl \in BOOLEAN, kr \in BOOLEAN : Tick(dt, kl, kr)
    /\ ticks' = ticks + 1
    /\ UNCHANGED held

NextAimed == UpdateAimed

SpecAimed == InitAimed /\ [][NextAimed]_vars

----------------------------------------------------------------------------
(* Properties *)

AngleInRange(f) ==
    FLIPPER_REST_ANGLE <= f.angle /\ f.angle <= FLIPPER_ANGLE

\* C1: after every Flipper.update, whatever the keys and dt were, the angle
\* of the left and of the right flipper lies between the rest angle and the
\* activated angle, both included.
C1_AngleWithinRange == AngleInRange(left) /\ AngleInRange(right)

\* C1 witness: an update that would have carried the left flipper past the
\* activated angle left it exactly there.
C1_Witness ==
    /\ op = "update"
    /\ left.activated
    /\ last.l0 < FLIPPER_ANGLE
    /\ last.l0 + (FLIPPER_SPEED * last.dt) \div 1000 > FLIPPER_ANGLE
    /\ left.angle = FLIPPER_ANGLE

\* C2: a K_SPACE event handled while a ball exists leaves the ball (position
\* and velocity), the score and both flippers as they were.
C2_LaunchWhileActiveIsNoOp ==
    [][(op' = "space" /\ ball # << >>)
         => (ball' = ball /\ score' = score /\ left' = left /\ right' = right)]_vars

\* C2 witness: K_SPACE was just handled and the table holds a ball that has
\* already moved from the spawn point with the velocity of its flight.
C2_Witness ==
    /\ op = "space"
    /\ ball # << >>
    /\ ball[1].y # Spawn.y
    /\ ball[1].vy # -LAUNCH_FORCE * VS

\* the value the table gives bumper i: 250 for the last one, 150 for the rest
BumperValue(i) == IF i = 13 THEN 250 ELSE 150

RECURSIVE SumValues(_)
SumValues(S) ==
    IF S = {} THEN 0
    ELSE LET i == CHOOSE j \in S : TRUE IN BumperValue(i) + SumValues(S \ {i})

\* the ball b is within 28 + 12 pixels of the centre of bumper i
InRange(i, b) ==
    /\ Abs(b.x - Bumpers[i].x * PS) <= 40 * PS
    /\ Abs(b.y - Bumpers[i].y * PS) <= 40 * PS
    /\ (b.x - Bumpers[i].x * PS) * (b.x - Bumpers[i].x * PS)
         + (b.y - Bumpers[i].y * PS) * (b.y - Bumpers[i].y * PS)
       <= (40 * PS) * (40 * PS)

\* C3: in every tick, each bumper that tests the ball adds its value (150 or
\* 250) to the score exactly when the ball, as that bumper tests it, is within
\* BUMPER_RADIUS + BALL_RADIUS of its centre; the score grows over the tick
\* by the sum of the values of the bumpers in range, and by 0 when there is
\* no ball; a tick that does not fail tests all thirteen bumpers.
C3_ScoreIsSumOfContacts ==
    op = "update" =>
        /\ score - last.score0 = SumValues(last.hits)
        /\ last.pre = << >> => (last.hits = {} /\ score = last.score0)
        /\ (last.pre # << >> /\ pc # "crashed") => Len(last.seen) = Len(Bumpers)
        /\ \A i \in 1..Len(last.seen) :
              (i \in last.hits) <=> InRange(i, last.seen[i])

\* C3 witness: a tick in which the 250-point bumper, and only it, was in
\* range, and the score grew by 250.
C3_Witness ==
    /\ op = "update"
    /\ last.pre # << >>
    /\ InRange(13, last.seen[13])
    /\ \A i \in 1..12 : ~InRange(i, last.seen[i])
    /\ score = last.score0 + 250

BottomPassed(b) == b.y - 12 * PS > (1000 + 40) * PS

\* C4: the table holds at most one ball; a ball that ends a tick past the
\* bottom edge by the margin is removed; a ball is removed by nothing else
\* (no flipper, bumper or wall contact removes it); and once there is no ball
\* there is none until K_SPACE launches one.
C4_BallLifecycle ==
    /\ [](Len(ball) <= 1)
    /\ [][(op' = "update" /\ pc' # "crashed" /\ last'.post # << >>
            /\ BottomPassed(last'.post[1])) => ball' = << >>]_vars
    /\ [][(ball # << >> /\ ball' = << >>)
            => (op' = "update" /\ last'.post # << >> /\ BottomPassed(last'.post[1]))]_vars
    /\ [][(ball = << >> /\ ball' # << >>) => op' = "space"]_vars

\* C4 witness: a tick that began with a ball, in which a bumper or a flipper
\* was hit, ended with the ball still on the table.
C4_Witness ==
    /\ op = "update"
    /\ last.pre # << >>
    /\ last.hits \cup last.fhits # {}
    /\ ball # << >>

\* C5: once both keys are held released, the flippers reach exactly the rest
\* angle after finitely many updates and stay there; once both are held
\* pressed, they reach exactly the activated angle and stay there.
C5_ReachesTargetExactly ==
    /\ (held = "released")
          ~> (left.angle = FLIPPER_REST_ANGLE /\ right.angle = FLIPPER_REST_ANGLE)
    /\ (held = "pressed")
          ~> (left.angle = FLIPPER_ANGLE /\ right.angle = FLIPPER_ANGLE)
    /\ [][(held = "released" /\ left.angle = FLIPPER_REST_ANGLE)
            => left'.angle = FLIPPER_REST_ANGLE]_vars
    /\ [][(held = "released" /\ right.angle = FLIPPER_REST_ANGLE)
            => right'.angle = FLIPPER_REST_ANGLE]_vars
    /\ [][(held = "pressed" /\ left.angle = FLIPPER_ANGLE)
            => left'.angle = FLIPPER_ANGLE]_vars
    /\ [][(held = "pressed" /\ right.angle = FLIPPER_ANGLE)
            => right'.angle = FLIPPER_ANGLE]_vars

\* C5 witness: with the keys held released, an update brought the left
\* flipper from another angle to exactly the rest angle.
C5_Witness ==
    /\ held = "released"
    /\ op = "update"
    /\ last.l0 # FLIPPER_REST_ANGLE
    /\ left.angle = FLIPPER_REST_ANGLE

\* the ball of the last tick integrated by semi-implicit Euler, written out:
\* gravity 900 px/s^2 is 9 velocity units per ms, and a velocity unit moves
\* the ball 1/100 of a position unit per ms
EulerVy == last.pre[1].vy + 9 * last.dt
EulerX == last.pre[1].x + RDiv(last.pre[1].vx * last.dt, 100)
EulerY == last.pre[1].y + RDiv(EulerVy * last.dt, 100)

CrossedLeft == EulerX - 12 * PS < 20 * PS
CrossedRight == EulerX + 12 * PS > (800 - 20) * PS
CrossedTop == EulerY - 12 * PS < 20 * PS

\* v is 0.92 of the size of w, to the rounding of one velocity unit
Restituted(v, w) == Abs(100 * Abs(v) - 92 * Abs(w)) <= 50

\* C6: right after Ball.update the ball's centre is inside the side and top
\* walls, 32 <= x <= 768 and y >= 32; and when a wall was crossed the velocity
\* component across it points into the field, with 0.92 of the size it had
\* before the bounce.
C6_InsideWallsAfterUpdate ==
    (op = "update" /\ last.pre # << >>) =>
        /\ 32 * PS <= last.mid[1].x
        /\ last.mid[1].x <= 768 * PS
        /\ 32 * PS <= last.mid[1].y
        /\ CrossedLeft => (last.mid[1].vx > 0 /\ Restituted(last.mid[1].vx, last.pre[1].vx))
        /\ CrossedRight => (last.mid[1].vx < 0 /\ Restituted(last.mid[1].vx, last.pre[1].vx))
        /\ CrossedTop => (last.mid[1].vy > 0 /\ Restituted(last.mid[1].vy, EulerVy))

\* C6 witness: a ball that was moving right crossed the right wall and came
\* back from Ball.update on the wall, moving left.
C6_Witness ==
    /\ op = "update"
    /\ last.pre # << >>
    /\ last.pre[1].vx > 0
    /\ CrossedRight
    /\ last.mid[1].x = 768 * PS
    /\ last.mid[1].vx < 0

C8_NoZeroNormalize ==
    /\ GetTip(LeftPivot, TRUE, left.angle) # LeftPivot
    /\ GetTip(RightPivot, FALSE, right.angle) # RightPivot
    /\ pc # "crashed"

\* the distance test of Flipper.collide for the ball b and the flipper with
\* this pivot, side and angle
NearFlipper(pivot, is_left, angle, b) ==
    FlipperContact(Sub(b, ClosestPoint(pivot,
                                       Normalize(Sub(GetTip(pivot, is_left, angle), pivot)),
                                       b)))

EulerBall == [x |-> EulerX, y |-> EulerY, vx |-> last.pre[1].vx, vy |-> EulerVy]

\* the integrated ball crosses no wall and is out of contact distance of both
\* flippers and of every bumper
FreeFlight ==
    /\ ~CrossedLeft /\ ~CrossedRight /\ ~CrossedTop
    /\ ~NearFlipper(LeftPivot, TRUE, left.angle, EulerBall)
    /\ ~NearFlipper(RightPivot, FALSE, right.angle, EulerBall)
    /\ \A i \in 1..13 : ~InRange(i, EulerBall)

\* C9: a tick in which the integrated ball crosses no wall and is out of
\* contact distance of both flippers and every bumper changes the ball by
\* semi-implicit Euler only (vy' = vy + g dt, vx' = vx, position' = position
\* + v' dt) and leaves the score alone.
C9_FreeFlightIsEuler ==
    (op = "update" /\ last.pre # << >> /\ FreeFlight) =>
        /\ last.post = <<EulerBall>>
        /\ ball \in {<< >>, <<EulerBall>>}
        /\ score = last.score0

\* C9 witness: a free-flight tick with a ball that was moving, which is
\* still on the table.
C9_Witness ==
    /\ op = "update"
    /\ last.pre # << >>
    /\ FreeFlight
    /\ last.pre[1].vy # 0
    /\ ball = <<EulerBall>>

\* the ball as bumper i's collide() left it: as the next bumper tested it,
\* or as _handle_collisions ended
AfterBumperTest(i) == IF i < 13 THEN last.seen[i + 1] ELSE last.post[1]

\* the square of the distance of ball b from the centre of bumper i, for a
\* ball within 50 pixels of it
DistSq(i, b) ==
    (b.x - Bumpers[i].x * PS) * (b.x - Bumpers[i].x * PS)
      + (b.y - Bumpers[i].y * PS) * (b.y - Bumpers[i].y * PS)

DirectlyAboveMovingDown(i, b) ==
    /\ b.x = Bumpers[i].x * PS
    /\ b.y < Bumpers[i].y * PS
    /\ b.vx = 0
    /\ b.vy > 0

\* C10: a bumper that reports contact leaves the ball 28 + 12 + 2 pixels from
\* its centre (to the rounding of positions, 2/100 pixel), out of its contact
\* range, and the ball is still out of its range when the tick ends; a ball
\* that was directly above the centre moving straight down leaves straight up.
C10_BumperRelocatesBall ==
    op = "update" =>
        \A i \in last.hits :
            /\ DistSq(i, AfterBumperTest(i)) >= (42 * PS - 2) * (42 * PS - 2)
            /\ DistSq(i, AfterBumperTest(i)) <= (42 * PS + 2) * (42 * PS + 2)
            /\ ~InRange(i, AfterBumperTest(i))
            /\ ~InRange(i, last.post[1])
            /\ DirectlyAboveMovingDown(i, last.seen[i]) =>
                  /\ AfterBumperTest(i).vy < 0
                  /\ AfterBumperTest(i).vx = 0
                  /\ AfterBumperTest(i).x = Bumpers[i].x * PS
                  /\ AfterBumperTest(i).y = (Bumpers[i].y - 42) * PS

\* C10 witness: the 250-point bumper reported contact with a ball that was
\* directly above its centre, moving straight down.
C10_Witness ==
    /\ op = "update"
    /\ 13 \in last.hits
    /\ DirectlyAboveMovingDown(13, last.seen[13])

====
